---- MODULE Spec2Model ----
(***************************************************************************)
(* The protocol and connection engine of the ds driver-station client:     *)
(* the shared send/recv/tcp state, the UDP send task with its exponential  *)
(* backoff, the UDP receive loop with the TCP supervisor it spawns, the    *)
(* simulator detector, and the facade (DriverStation) that mutates the     *)
(* shared state and posts signals.                                         *)
(*                                                                         *)
(* Source: src/src/ds.rs, src/src/ds/conn.rs, src/src/ds/conn/backoff.rs,  *)
(* src/src/util.rs, src/src/proto/udp/outbound.rs and its types.           *)
(* src/src/ds/state.rs (DsState, SendState, RecvState, TcpState) is not    *)
(* part of the source tree; its operations are modelled from spec.md       *)
(* sections 3 and 4.2 and are marked so where they are defined.            *)
(***************************************************************************)
EXTENDS Integers, Sequences, FiniteSets, TLC

(***************************************************************************)
(* Bounds of the model.                                                    *)
(***************************************************************************)
\* Environment inputs in one run: facade calls, received datagrams,
\* simulator probe events, failed sends.  (A TCP supervisor exits at most
\* once, so its failures need no budget.)
MaxEvents == 2
\* 20 ms ticks served between two resets of the sequence number.
MaxTicks == 2
\* TCP supervisors spawned in one run.
MaxSup == 2
\* Longest boolean vector given to to_u8_vec: one full chunk and a partial one.
MaxBools == 9
\* Most bytes after the header of a datagram given to decode: an unknown id,
\* a DiskInfo id and its four payload bytes.
MaxTail == 6
\* Calls of ExponentialBackoff::run and reset in one run: enough failures
\* in a row to pass the ceiling and go on.
MaxRuns == 6

(***************************************************************************)
(* Program constants.                                                      *)
(***************************************************************************)
U16 == 65536
COMM_VERSION == 1
CONTROL_ESTOP == 128
CONTROL_FMS_CONNECTED == 8
CONTROL_ENABLED == 4
CONTROL_TELEOP == 0
CONTROL_TEST == 1
CONTROL_AUTO == 2
REQUEST_REBOOT_ROBORIO == 8
REQUEST_RESTART_CODE == 4
BACKOFF_BASE_MS == 20
BACKOFF_MAX_MS == 5000
TAG_DATETIME == 15
TAG_JOYSTICKS == 12

\* Bit b (a power of two) of byte x.
HasBit(x, b) == (x \div b) % 2 = 1
SetBit(x, b) == IF HasBit(x, b) THEN x ELSE x + b

\* Option<T>: None is <<>>, Some(x) is <<x>>.
None == <<>>
Some(x) == <<x>>

(***************************************************************************)
(* Addresses.  An IP is the tuple of its four dotted components; the       *)
(* socket accepts it only when every component fits a byte.                *)
(***************************************************************************)
LOOPBACK == <<127, 0, 0, 1>>
USB_IP == <<172, 22, 11, 2>>

\* A derivation without the upper limit on the team number.
ip_from_team_number_unchecked(team) ==
    IF team < 100 THEN Some(<<10, 0, team, 2>>)
    ELSE Some(<<10, team \div 100, team % 100, 2>>)

ip_from_team_number(team) ==
    IF team >= 100000 THEN None
    ELSE IF team < 100 THEN Some(<<10, 0, team, 2>>)
    ELSE Some(<<10, team \div 100, team % 100, 2>>)

WellFormedIp(ip) == \A i \in 1..4 : ip[i] \in 0..255

\* Construction arguments (examples/simple.rs) and the teams the facade is
\* given later: a small team, a four-digit team, and a u16 team whose
\* derived address has a component above 255.
InitTeam == 4533
InitAlliance == 0
Teams == {7, 30000}
InitIp == ip_from_team_number(InitTeam)[1]

(***************************************************************************)
(* UDP control packet and its encoding (proto/udp/outbound.rs).            *)
(***************************************************************************)
\* Tag::construct: length (1 + |data|), id, data.
construct(id, data) == <<1 + Len(data), id>> \o data

\* The DateTime tag the recv task queues; the UTC clock is read as the fixed
\* instant 2024-05-23 17:55:30.123456.
DateTimeData == <<0, 1, 226, 64, 30, 55, 17, 23, 4, 124>>
DateTimeTag == construct(TAG_DATETIME, DateTimeData)

RECURSIVE Flatten(_)
Flatten(tags) == IF tags = <<>> THEN <<>> ELSE Head(tags) \o Flatten(Tail(tags))

\* An encoder that writes the request byte before the control byte.
encode_request_first(p) ==
    << p.seqnum \div 256, p.seqnum % 256, COMM_VERSION,
       IF p.request # None THEN p.request[1] ELSE 0,
       p.control, p.alliance >> \o Flatten(p.tags)

\* UdpControlPacket::encode
encode(p) ==
    << p.seqnum \div 256, p.seqnum % 256, COMM_VERSION, p.control,
       IF p.request # None THEN p.request[1] ELSE 0,
       p.alliance >> \o Flatten(p.tags)

\* Fields of an encoded packet.
SeqOf(bytes) == bytes[1] * 256 + bytes[2]
ControlOf(bytes) == bytes[4]
RequestOf(bytes) == bytes[5]

(***************************************************************************)
(* Send state (ds/state.rs, modelled from spec.md 3 and 4.2).              *)
(***************************************************************************)
Modes == {"Teleop", "Test", "Autonomous"}
DsModes == {"Normal", "Simulation"}

ModeBits(m) ==
    CASE m = "Teleop" -> CONTROL_TELEOP
      [] m = "Test" -> CONTROL_TEST
      [] m = "Autonomous" -> CONTROL_AUTO

SendStateNew(alliance, mode) ==
    [ alliance |-> alliance, mode |-> mode, enabled |-> FALSE,
      estopped |-> FALSE, pending_request |-> 0, pending_udp |-> <<>>,
      ds_mode |-> "Normal", udp_seqnum |-> 0 ]

\* The Control flags of the current state.
control_flags(s) ==
    ModeBits(s.mode)
      + (IF s.enabled THEN CONTROL_ENABLED ELSE 0)
      + (IF s.estopped THEN CONTROL_ESTOP ELSE 0)

\* control(): the packet of this tick, and the state with the pending
\* request flags cleared and the queued tags drained.
control_packet(s) ==
    [ seqnum |-> s.udp_seqnum, control |-> control_flags(s),
      request |-> IF s.pending_request = 0 THEN None ELSE Some(s.pending_request),
      alliance |-> s.alliance, tags |-> s.pending_udp ]
control_state(s) == [s EXCEPT !.pending_request = 0, !.pending_udp = <<>>]

increment_seqnum(s) == [s EXCEPT !.udp_seqnum = (s.udp_seqnum + 1) % U16]
reset_seqnum(s) == [s EXCEPT !.udp_seqnum = 0]
enable(s) == [s EXCEPT !.enabled = TRUE]
disable(s) == [s EXCEPT !.enabled = FALSE]
estop(s) == [s EXCEPT !.estopped = TRUE]
set_mode(s, m) == [s EXCEPT !.mode = m]
set_ds_mode(s, m) == [s EXCEPT !.ds_mode = m]
request(s, flags) == [s EXCEPT !.pending_request = SetBit(s.pending_request, flags)]
queue_udp(s, tag) == [s EXCEPT !.pending_udp = Append(s.pending_udp, tag)]

\* Recv state and its reset primitive.
RecvStateNew == [trace |-> 0, battery |-> 0]
recv_reset(r) == [trace |-> 0, battery |-> 0]

(***************************************************************************)
(* ExponentialBackoff (ds/conn/backoff.rs).  Durations are milliseconds.   *)
(***************************************************************************)
RECURSIVE Pow(_, _)
Pow(b, e) == IF e = 0 THEN 1 ELSE b * Pow(b, e - 1)

MinOf(a, b) == IF a <= b THEN a ELSE b

\* ExponentialBackoff::new(max_timeout); the send task's is new(5 s).
backoff_new(max_timeout) ==
    [attempt |-> 0, max_timeout |-> max_timeout, use_max |-> FALSE, timeout |-> None]
BackoffNew == backoff_new(BACKOFF_MAX_MS)

backoff_reset(b) == [b EXCEPT !.use_max = FALSE, !.attempt = 0, !.timeout = None]

\* A delay that starts at the base and doubles.
calculate_wait_doubling(b) ==
    IF b.use_max THEN b
    ELSE LET backoff_millis == BACKOFF_BASE_MS * Pow(2, b.attempt)
             delay == MinOf(backoff_millis, b.max_timeout)
         IN [b EXCEPT !.use_max = (delay = b.max_timeout), !.timeout = Some(delay)]

\* A delay that is not capped by the ceiling.
calculate_wait_uncapped(b) ==
    IF b.use_max THEN b
    ELSE LET backoff_millis == Pow(BACKOFF_BASE_MS, b.attempt)
         IN [b EXCEPT !.use_max = (backoff_millis = b.max_timeout),
                      !.timeout = Some(backoff_millis)]

calculate_wait(b) ==
    IF b.use_max THEN b
    ELSE LET backoff_millis == Pow(BACKOFF_BASE_MS, b.attempt)
             delay == MinOf(backoff_millis, b.max_timeout)
         IN [b EXCEPT !.use_max = (delay = b.max_timeout), !.timeout = Some(delay)]

\* run(fut) when fut succeeds, and when it fails: the new backoff and the
\* "disconnected" flag returned beside the error.
run_ok(b) == backoff_reset(b)

\* A failing run that does not count the attempt.
run_err_keeps_attempt(b) ==
    [ backoff |-> calculate_wait(b), disconnected |-> (b.attempt = 0) ]

run_err(b) ==
    [ backoff |-> [calculate_wait(b) EXCEPT !.attempt = b.attempt + 1],
      disconnected |-> (b.attempt = 0) ]

(***************************************************************************)
(* Signals (ds.rs, enum Signal).                                           *)
(***************************************************************************)
Disconnect == [type |-> "Disconnect", ip |-> <<>>, mode |-> "Normal"]
NewTarget(ip) == [type |-> "NewTarget", ip |-> ip, mode |-> "Normal"]
NewMode(m) == [type |-> "NewMode", ip |-> <<>>, mode |-> m]

\* Decoded UDP responses the RIO may send: the fields the engine reads.
TRACE_ROBOT_CODE == 32
TRACE_IS_ROBORIO == 16
Responses ==
    [ need_date : BOOLEAN, estop : BOOLEAN,
      trace : {TRACE_ROBOT_CODE + TRACE_IS_ROBORIO}, battery : {12} ]
NoPacket == [need_date |-> FALSE, estop |-> FALSE, trace |-> 0, battery |-> 0]

VARIABLES
    \* shared state (Arc<DsState>)
    send,            \* SendState behind its RwLock
    recv,            \* RecvState behind its RwLock
    tcp_state_tx,    \* TcpState.tcp_tx: 0 (None) or the supervisor whose tag sender is installed
    \* UDP send task
    sendPc,          \* position of the send task
    v,               \* the encoded packet of the tick in progress (<<>> when none)
    udp_tx,          \* address the send socket is connected to
    backoff,         \* the task's ExponentialBackoff
    sig_ip,          \* target of the signal being applied
    fwd_q,           \* forwarded signals in flight (fwd_tx -> fwd_rx)
    fwd_eof,         \* the send task has received end-of-stream from fwd_rx
    \* UDP receive loop (udp_conn)
    recvPc, packet, connected, tcp_connected, tcp_tx, target_ip,
    rx_q,            \* signals in flight from the facade and the simulator detector
    \* TCP supervisors (tcp_conn), by spawn order
    sup, sup_sig, nsup,
    \* tags waiting in each supervisor's tag channel; the outcome of the last
    \* set_game_specific_message ("none" before the first)
    tag_q, gsm_ret,
    \* simulator detector (sim_conn)
    simPc, opmode,
    \* facade (DriverStation) and its constructor
    ds, team_number, newPc,
    \* bounds
    events, ticks,
    \* history
    lastBuilt,       \* sequence number of the last packet built since the last reset (-1: none)
    lastEmit,        \* sequence number of the last packet emitted since the last reset (-1: none)
    owed,            \* request bits invoked by the facade and not yet emitted
    emittedBits,     \* request bits that some emitted packet has carried
    enAfterIssue,    \* enable() was called after the last reconfiguration was issued
    enAfterApply,    \* enable() was called after the send task last applied a reset
    lastEnable,      \* value of the last enable/disable, FALSE after an applied reset
    lastMode,        \* mode of the last set_mode ("none" before the first)
    resetAfterEstop, \* the send task applied a reset while the e-stop was latched
    responded,       \* a UDP response was decoded since the receive loop last reconfigured
    \* the last application of a codec or utility function
    called,          \* which function ("none" before the first)
    arg,             \* its argument
    ret,             \* its result
    \* ExponentialBackoff driven call by call
    runs,            \* calls of run and reset so far
    streak           \* failed runs since construction, the last success or reset

sendVars == <<sendPc, v, udp_tx, backoff, sig_ip, fwd_eof>>
recvVars == <<recvPc, packet, connected, tcp_connected, tcp_tx, target_ip>>
supVars == <<sup, sup_sig, nsup>>
simVars == <<simPc, opmode>>
facadeVars == <<ds, team_number, newPc>>
seqHist == <<lastBuilt, lastEmit>>
reqHist == <<owed, emittedBits>>
enHist == <<enAfterIssue, enAfterApply, lastEnable>>
modeHist == <<lastMode, resetAfterEstop>>
histVars == <<seqHist, reqHist, enHist, modeHist, responded>>
pureVars == <<called, arg, ret, runs, streak>>
tagVars == <<tag_q, gsm_ret>>
engineVars == << send, recv, tcp_state_tx, sendVars, fwd_q, recvVars, rx_q,
                 supVars, tagVars, simVars, facadeVars, events, ticks, histVars >>
vars == <<engineVars, pureVars>>

Sups == 1..MaxSup
NoSup == [pc |-> "unspawned", ip |-> <<>>]

\* The shared state as DsState::new leaves it, with the tasks' locals
\* other than the backoff object, after seq ticks have been served (seq = 0:
\* right after construction).
InitShared(seq) ==
    /\ \E m \in Modes : send = [SendStateNew(InitAlliance, m) EXCEPT !.udp_seqnum = seq]
    /\ recv = RecvStateNew
    /\ tcp_state_tx = 0
    /\ v = <<>>
    /\ sig_ip = <<>>
    /\ fwd_q = <<>>
    /\ fwd_eof = FALSE
    /\ packet = NoPacket
    /\ connected = TRUE
    /\ tcp_connected = FALSE
    /\ tcp_tx = 0
    /\ target_ip = InitIp
    /\ rx_q = <<>>
    /\ sup = [g \in Sups |-> NoSup]
    /\ sup_sig = [g \in Sups |-> 0]
    /\ nsup = 0
    /\ tag_q = [g \in Sups |-> <<>>]
    /\ gsm_ret = "none"
    /\ opmode = "Normal"
    /\ team_number = InitTeam
    /\ events = 0
    /\ ticks = 0
    /\ lastBuilt = seq - 1
    /\ lastEmit = seq - 1
    /\ owed = {}
    /\ emittedBits = {}
    /\ enAfterIssue = FALSE
    /\ enAfterApply = FALSE
    /\ lastEnable = FALSE
    /\ lastMode = "none"
    /\ resetAfterEstop = FALSE
    /\ responded = FALSE
    /\ called = "none"
    /\ arg = <<>>
    /\ ret = <<>>
    /\ runs = 0
    /\ streak = 0

InitCommon(seq) ==
    /\ InitShared(seq)
    /\ backoff = BackoffNew

\* The state in which construction has spawned the engine and a
\* DriverStation handle exists.
Init ==
    /\ InitCommon(0)
    /\ sendPc = "select"
    /\ udp_tx = InitIp
    /\ recvPc = "select"
    /\ simPc = "loop"
    /\ ds = "live"
    /\ newPc = "returned"

(***************************************************************************)
(* Locks and channels.  The send-state write lock is held across steps     *)
(* only by the send task (tick: conn.rs 65-80, signal: 83-95, 97-106); the *)
(* recv-state write lock only by the receive loop while it handles a       *)
(* packet (conn.rs 126-161).  Every other access takes and releases the    *)
(* lock inside one step and waits while the lock is held.                  *)
(***************************************************************************)
SendLockFree == sendPc \notin {"tick_send", "tick_recv", "sig_recv"}
RecvLockFree == recvPc \notin {"need_date", "spawn_tcp", "estop"}

RecvEnded == recvPc \in {"done", "failed", "panicked"}
SendEnded == sendPc \in {"panicked"}

\* The private channel of supervisor g is closed once the receive loop has
\* replaced or dropped its sender.
SupSigClosed(g) == tcp_tx # g \/ RecvEnded

\* Request bits carried by an encoded packet.
RequestBits(bytes) ==
    {b \in {REQUEST_RESTART_CODE, REQUEST_REBOOT_ROBORIO} : HasBit(RequestOf(bytes), b)}

(***************************************************************************)
(* UDP send task (conn.rs 48-111).                                         *)
(***************************************************************************)
\* A tick whose snapshot leaves the pending request in the send state.
SendTickKeepsRequest ==
    /\ sendPc = "select"
    /\ ticks < MaxTicks
    /\ v' = encode(control_packet(send))
    /\ send' = [send EXCEPT !.pending_udp = <<>>]
    /\ sendPc' = "tick_send"
    /\ ticks' = ticks + 1
    /\ lastBuilt' = send.udp_seqnum
    /\ UNCHANGED << recv, tcp_state_tx, udp_tx, backoff, sig_ip, fwd_eof, fwd_q,
                    recvVars, rx_q, supVars, simVars, facadeVars, events,
                    lastEmit, reqHist, enHist, modeHist, responded >>
    /\ UNCHANGED <<pureVars, tagVars>>

\* A tick whose snapshot leaves the queued tags in the send state.
SendTickKeepsTags ==
    /\ sendPc = "select"
    /\ ticks < MaxTicks
    /\ v' = encode(control_packet(send))
    /\ send' = [send EXCEPT !.pending_request = 0]
    /\ sendPc' = "tick_send"
    /\ ticks' = ticks + 1
    /\ lastBuilt' = send.udp_seqnum
    /\ UNCHANGED << recv, tcp_state_tx, udp_tx, backoff, sig_ip, fwd_eof, fwd_q,
                    recvVars, rx_q, supVars, simVars, facadeVars, events,
                    lastEmit, reqHist, enHist, modeHist, responded >>
    /\ UNCHANGED <<pureVars, tagVars>>

\* interval.tick() branch, lines 64-66: take the send-state write lock,
\* build and encode the packet of this tick.
SendTick ==
    /\ sendPc = "select"
    /\ ticks < MaxTicks
    /\ v' = encode(control_packet(send))
    /\ send' = control_state(send)
    /\ sendPc' = "tick_send"
    /\ ticks' = ticks + 1
    /\ lastBuilt' = send.udp_seqnum
    /\ UNCHANGED << recv, tcp_state_tx, udp_tx, backoff, sig_ip, fwd_eof, fwd_q,
                    recvVars, rx_q, supVars, simVars, facadeVars, events,
                    lastEmit, reqHist, enHist, modeHist, responded >>
    /\ UNCHANGED <<pureVars, tagVars>>

\* lines 70-71, 79: the pending backoff delay is waited out with the lock
\* held, the datagram is sent, the sequence number incremented.
TickSendOk ==
    /\ sendPc = "tick_send"
    /\ backoff' = run_ok(backoff)
    /\ send' = increment_seqnum(send)
    /\ v' = <<>>
    /\ sendPc' = "select"
    /\ lastEmit' = SeqOf(v)
    /\ owed' = owed \ RequestBits(v)
    /\ emittedBits' = emittedBits \cup RequestBits(v)
    /\ UNCHANGED << recv, tcp_state_tx, udp_tx, sig_ip, fwd_eof, fwd_q, recvVars,
                    rx_q, supVars, simVars, facadeVars, events, ticks,
                    lastBuilt, enHist, modeHist, responded >>
    /\ UNCHANGED <<pureVars, tagVars>>

\* A failed send that skips the increment of line 79 on the path that does
\* not reset the recv state.
TickSendErrKeepsSeq(refused) ==
    /\ sendPc = "tick_send"
    /\ events < MaxEvents
    /\ events' = events + 1
    /\ backoff' = run_err(backoff).backoff
    /\ v' = <<>>
    /\ send' = send
    /\ sendPc' = IF refused /\ run_err(backoff).disconnected THEN "tick_recv" ELSE "select"
    /\ UNCHANGED << recv, tcp_state_tx, udp_tx, sig_ip, fwd_eof, fwd_q, recvVars,
                    rx_q, supVars, simVars, facadeVars, ticks, histVars >>
    /\ UNCHANGED <<pureVars, tagVars>>

\* A failed send that resets the recv state on every first failure,
\* whatever the kind of the error.
TickSendErrResetsAlways(refused) ==
    /\ sendPc = "tick_send"
    /\ events < MaxEvents
    /\ events' = events + 1
    /\ backoff' = run_err(backoff).backoff
    /\ v' = <<>>
    /\ IF run_err(backoff).disconnected
          THEN sendPc' = "tick_recv" /\ send' = send
          ELSE sendPc' = "select" /\ send' = increment_seqnum(send)
    /\ UNCHANGED << recv, tcp_state_tx, udp_tx, sig_ip, fwd_eof, fwd_q, recvVars,
                    rx_q, supVars, simVars, facadeVars, ticks, histVars >>
    /\ UNCHANGED <<pureVars, tagVars>>

\* lines 72-79: the send fails; refused tells a ConnectionRefused error
\* from any other.  On the first failure of a refused socket the recv
\* state is reset, which needs the recv-state write lock.
TickSendErr(refused) ==
    /\ sendPc = "tick_send"
    /\ events < MaxEvents
    /\ events' = events + 1
    /\ backoff' = run_err(backoff).backoff
    /\ v' = <<>>
    /\ IF refused /\ run_err(backoff).disconnected
          THEN sendPc' = "tick_recv" /\ send' = send
          ELSE sendPc' = "select" /\ send' = increment_seqnum(send)
    /\ UNCHANGED << recv, tcp_state_tx, udp_tx, sig_ip, fwd_eof, fwd_q, recvVars,
                    rx_q, supVars, simVars, facadeVars, ticks, histVars >>
    /\ UNCHANGED <<pureVars, tagVars>>

\* lines 75, 79
TickRecvReset ==
    /\ sendPc = "tick_recv"
    /\ RecvLockFree
    /\ recv' = recv_reset(recv)
    /\ send' = increment_seqnum(send)
    /\ sendPc' = "select"
    /\ UNCHANGED << tcp_state_tx, v, udp_tx, backoff, sig_ip, fwd_eof, fwd_q,
                    recvVars, rx_q, supVars, simVars, facadeVars, events, ticks,
                    histVars >>
    /\ UNCHANGED <<pureVars, tagVars>>

\* fwd_rx.recv() branch, lines 82-85 and 96-99: a NewTarget(ip) or a
\* NewMode(Simulation) is taken from the channel; under the send-state
\* write lock the sequence number is reset and the robot disabled.
SigResets(sig) ==
    sig.type = "NewTarget" \/ (sig.type = "NewMode" /\ sig.mode = "Simulation")

\* A signal handler that resets the sequence number and leaves the robot
\* enabled.
SendSigResetKeepsEnabled ==
    /\ sendPc = "select"
    /\ fwd_q # <<>>
    /\ SigResets(Head(fwd_q))
    /\ fwd_q' = Tail(fwd_q)
    /\ send' = reset_seqnum(send)
    /\ sig_ip' = IF Head(fwd_q).type = "NewTarget" THEN Head(fwd_q).ip ELSE LOOPBACK
    /\ sendPc' = "sig_recv"
    /\ ticks' = 0
    /\ lastBuilt' = -1
    /\ lastEmit' = -1
    /\ enAfterApply' = FALSE
    /\ lastEnable' = FALSE
    /\ resetAfterEstop' = (resetAfterEstop \/ send.estopped)
    /\ UNCHANGED << recv, tcp_state_tx, v, udp_tx, backoff, fwd_eof, recvVars,
                    rx_q, supVars, simVars, facadeVars, events, reqHist,
                    enAfterIssue, lastMode, responded >>
    /\ UNCHANGED <<pureVars, tagVars>>

\* A signal handler that replaces the send state by a fresh one.
SendSigResetFreshState ==
    /\ sendPc = "select"
    /\ fwd_q # <<>>
    /\ SigResets(Head(fwd_q))
    /\ fwd_q' = Tail(fwd_q)
    /\ send' = [SendStateNew(send.alliance, send.mode) EXCEPT !.ds_mode = send.ds_mode]
    /\ sig_ip' = IF Head(fwd_q).type = "NewTarget" THEN Head(fwd_q).ip ELSE LOOPBACK
    /\ sendPc' = "sig_recv"
    /\ ticks' = 0
    /\ lastBuilt' = -1
    /\ lastEmit' = -1
    /\ enAfterApply' = FALSE
    /\ lastEnable' = FALSE
    /\ resetAfterEstop' = (resetAfterEstop \/ send.estopped)
    /\ UNCHANGED << recv, tcp_state_tx, v, udp_tx, backoff, fwd_eof, recvVars,
                    rx_q, supVars, simVars, facadeVars, events, reqHist,
                    enAfterIssue, lastMode, responded >>
    /\ UNCHANGED <<pureVars, tagVars>>

SendSigReset ==
    /\ sendPc = "select"
    /\ fwd_q # <<>>
    /\ SigResets(Head(fwd_q))
    /\ fwd_q' = Tail(fwd_q)
    /\ send' = disable(reset_seqnum(send))
    /\ sig_ip' = IF Head(fwd_q).type = "NewTarget" THEN Head(fwd_q).ip ELSE LOOPBACK
    /\ sendPc' = "sig_recv"
    /\ ticks' = 0
    /\ lastBuilt' = -1
    /\ lastEmit' = -1
    /\ enAfterApply' = FALSE
    /\ lastEnable' = FALSE
    /\ resetAfterEstop' = (resetAfterEstop \/ send.estopped)
    /\ UNCHANGED << recv, tcp_state_tx, v, udp_tx, backoff, fwd_eof, recvVars,
                    rx_q, supVars, simVars, facadeVars, events, reqHist,
                    enAfterIssue, lastMode, responded >>
    /\ UNCHANGED <<pureVars, tagVars>>

\* A reconnect that leaves the backoff as the old target left it.
SendSigApplyKeepsBackoff ==
    /\ sendPc = "sig_recv"
    /\ RecvLockFree
    /\ recv' = recv_reset(recv)
    /\ sig_ip' = <<>>
    /\ IF WellFormedIp(sig_ip)
          THEN /\ udp_tx' = sig_ip
               /\ sendPc' = "select"
               /\ UNCHANGED << backoff, fwd_q >>
          ELSE /\ sendPc' = "panicked"
               /\ fwd_q' = <<>>
               /\ UNCHANGED << udp_tx, backoff >>
    /\ UNCHANGED << send, tcp_state_tx, v, fwd_eof, recvVars, rx_q, supVars,
                    simVars, facadeVars, events, ticks, histVars >>
    /\ UNCHANGED <<pureVars, tagVars>>

\* lines 86-94 and 100-105: reset the recv state, connect the socket to the
\* new address, reset the backoff.  A connect that fails panics the task
\* (expect), which drops fwd_rx.
SendSigApply ==
    /\ sendPc = "sig_recv"
    /\ RecvLockFree
    /\ recv' = recv_reset(recv)
    /\ sig_ip' = <<>>
    /\ IF WellFormedIp(sig_ip)
          THEN /\ udp_tx' = sig_ip
               /\ backoff' = backoff_reset(backoff)
               /\ sendPc' = "select"
               /\ fwd_q' = fwd_q
          ELSE /\ sendPc' = "panicked"
               /\ fwd_q' = <<>>
               /\ UNCHANGED << udp_tx, backoff >>
    /\ UNCHANGED << send, tcp_state_tx, v, fwd_eof, recvVars, rx_q, supVars,
                    simVars, facadeVars, events, ticks, histVars >>
    /\ UNCHANGED <<pureVars, tagVars>>

\* line 107: every other signal is ignored.
SendSigIgnored ==
    /\ sendPc = "select"
    /\ fwd_q # <<>>
    /\ ~SigResets(Head(fwd_q))
    /\ fwd_q' = Tail(fwd_q)
    /\ UNCHANGED << send, recv, tcp_state_tx, sendVars, recvVars, rx_q, supVars,
                    simVars, facadeVars, events, ticks, histVars >>
    /\ UNCHANGED <<pureVars, tagVars>>

\* line 107 again: once the receive loop has ended, fwd_rx.recv() yields
\* None; the arm `_ => {}` takes it and the loop goes on.
SendSigEof ==
    /\ sendPc = "select"
    /\ fwd_q = <<>>
    /\ RecvEnded
    /\ fwd_eof' = TRUE
    /\ UNCHANGED << send, recv, tcp_state_tx, sendPc, v, udp_tx, backoff, sig_ip,
                    fwd_q, recvVars, rx_q, supVars, simVars, facadeVars, events,
                    ticks, histVars >>
    /\ UNCHANGED <<pureVars, tagVars>>

SendTask ==
    \/ SendTick
    \/ TickSendOk
    \/ \E refused \in BOOLEAN : TickSendErr(refused)
    \/ TickRecvReset
    \/ SendSigReset
    \/ SendSigApply
    \/ SendSigIgnored
    \/ SendSigEof

(***************************************************************************)
(* UDP receive loop (udp_conn, conn.rs 116-205).                           *)
(***************************************************************************)
\* lines 177-180 and 189-192: tell the current supervisor to disconnect.
\* The send fails silently when the supervisor has dropped its receiver.
TcpDisconnect ==
    IF tcp_tx # 0
      THEN /\ sup_sig' = [sup_sig EXCEPT ![tcp_tx] =
                            IF sup[tcp_tx].pc \in {"connecting", "running"} THEN @ + 1 ELSE @]
           /\ tcp_connected' = FALSE
      ELSE UNCHANGED << sup_sig, tcp_connected >>

\* fwd_tx.send(..)?: the signals are queued for the send task; when the send
\* task is gone the send fails and udp_conn returns the error.
ForwardAll(sigs) ==
    IF SendEnded
      THEN recvPc' = "failed" /\ rx_q' = <<>> /\ fwd_q' = fwd_q
      ELSE recvPc' = "select" /\ rx_q' = Tail(rx_q) /\ fwd_q' = fwd_q \o sigs

\* line 175
RecvSigDisconnect ==
    /\ recvPc = "select"
    /\ rx_q # <<>>
    /\ Head(rx_q).type = "Disconnect"
    /\ recvPc' = "done"
    /\ rx_q' = <<>>
    /\ UNCHANGED << send, recv, tcp_state_tx, sendVars, fwd_q, packet, connected,
                    tcp_connected, tcp_tx, target_ip, supVars, simVars, facadeVars,
                    events, ticks, histVars >>
    /\ UNCHANGED <<pureVars, tagVars>>

\* lines 176-185
RecvSigNewTarget ==
    /\ recvPc = "select"
    /\ rx_q # <<>>
    /\ Head(rx_q).type = "NewTarget"
    /\ TcpDisconnect
    /\ target_ip' = Head(rx_q).ip
    /\ ForwardAll(<<Head(rx_q)>>)
    /\ responded' = FALSE
    /\ UNCHANGED << send, recv, tcp_state_tx, sendVars, packet, connected, tcp_tx,
                    sup, nsup, simVars, facadeVars, events, ticks, seqHist,
                    reqHist, enHist, modeHist >>
    /\ UNCHANGED <<pureVars, tagVars>>

\* A mode change that forwards the NewMode alone, also on the way back to
\* Normal.
RecvSigNewModeNoTarget ==
    /\ recvPc = "select"
    /\ rx_q # <<>>
    /\ Head(rx_q).type = "NewMode"
    /\ SendLockFree
    /\ LET sig == Head(rx_q)
           mode == sig.mode
           current_mode == send.ds_mode
       IN IF mode # current_mode
            THEN /\ TcpDisconnect
                 /\ send' = set_ds_mode(send, mode)
                 /\ ForwardAll(<<sig>>)
                 /\ responded' = FALSE
            ELSE /\ rx_q' = Tail(rx_q)
                 /\ UNCHANGED << sup_sig, tcp_connected, send, recvPc, fwd_q,
                                 responded >>
    /\ UNCHANGED << recv, tcp_state_tx, sendVars, packet, connected, tcp_tx,
                    target_ip, sup, nsup, simVars, facadeVars, events, ticks,
                    seqHist, reqHist, enHist, modeHist >>
    /\ UNCHANGED <<pureVars, tagVars>>

\* lines 186-200
RecvSigNewMode ==
    /\ recvPc = "select"
    /\ rx_q # <<>>
    /\ Head(rx_q).type = "NewMode"
    /\ SendLockFree
    /\ LET sig == Head(rx_q)
           mode == sig.mode
           current_mode == send.ds_mode
       IN IF mode # current_mode
            THEN /\ TcpDisconnect
                 /\ send' = set_ds_mode(send, mode)
                 /\ ForwardAll(IF mode = "Normal"
                                 THEN <<NewTarget(target_ip), sig>>
                                 ELSE <<sig>>)
                 /\ responded' = FALSE
            ELSE /\ rx_q' = Tail(rx_q)
                 /\ UNCHANGED << sup_sig, tcp_connected, send, recvPc, fwd_q,
                                 responded >>
    /\ UNCHANGED << recv, tcp_state_tx, sendVars, packet, connected, tcp_tx,
                    target_ip, sup, nsup, simVars, facadeVars, events, ticks,
                    seqHist, reqHist, enHist, modeHist >>
    /\ UNCHANGED <<pureVars, tagVars>>

\* A timeout that also tells the TCP supervisor to disconnect.
RecvTimeoutTearsDown ==
    /\ recvPc = "select"
    /\ IF connected
          THEN recv' = recv_reset(recv) /\ connected' = FALSE /\ TcpDisconnect
          ELSE UNCHANGED << recv, connected, sup_sig, tcp_connected >>
    /\ UNCHANGED << send, tcp_state_tx, sendVars, fwd_q, recvPc, packet, tcp_tx,
                    target_ip, rx_q, sup, nsup, simVars, facadeVars, events,
                    ticks, histVars >>
    /\ UNCHANGED <<pureVars, tagVars>>

\* lines 166-172: two seconds without a datagram; nothing is done when the
\* loop is already disconnected.
RecvTimeout ==
    /\ recvPc = "select"
    /\ IF connected
          THEN recv' = recv_reset(recv) /\ connected' = FALSE
          ELSE UNCHANGED << recv, connected >>
    /\ UNCHANGED << send, tcp_state_tx, sendVars, fwd_q, recvPc, packet,
                    tcp_connected, tcp_tx, target_ip, rx_q, supVars, simVars,
                    facadeVars, events, ticks, histVars >>
    /\ UNCHANGED <<pureVars, tagVars>>

\* The first step of the packet arm that has work to do.
StageAfterLock(p) ==
    IF p.need_date THEN "need_date"
    ELSE IF ~tcp_connected THEN "spawn_tcp" ELSE "estop"

\* lines 121-126: a datagram decodes; the recv-state write lock is taken
\* and held to the end of the arm.
RecvPacket(p) ==
    /\ recvPc = "select"
    /\ events < MaxEvents
    /\ tcp_connected \/ nsup < MaxSup
    /\ events' = events + 1
    /\ connected' = TRUE
    /\ packet' = p
    /\ recvPc' = StageAfterLock(p)
    /\ responded' = TRUE
    /\ UNCHANGED << send, recv, tcp_state_tx, sendVars, fwd_q, tcp_connected,
                    tcp_tx, target_ip, rx_q, supVars, simVars, facadeVars, ticks,
                    seqHist, reqHist, enHist, modeHist >>
    /\ UNCHANGED <<pureVars, tagVars>>

\* lines 128-139: need_date queues a DateTime tag on the send state.
RecvNeedDate ==
    /\ recvPc = "need_date"
    /\ SendLockFree
    /\ send' = queue_udp(send, DateTimeTag)
    /\ recvPc' = IF ~tcp_connected THEN "spawn_tcp" ELSE "estop"
    /\ UNCHANGED << recv, tcp_state_tx, sendVars, fwd_q, packet, connected,
                    tcp_connected, tcp_tx, target_ip, rx_q, supVars, simVars,
                    facadeVars, events, ticks, histVars >>
    /\ UNCHANGED <<pureVars, tagVars>>

\* lines 141-151: no supervisor attached; a new private channel replaces
\* tcp_tx and a supervisor is spawned for the address of the current DsMode.
RecvSpawnTcp ==
    /\ recvPc = "spawn_tcp"
    /\ SendLockFree
    /\ nsup' = nsup + 1
    /\ tcp_tx' = nsup + 1
    /\ sup' = [sup EXCEPT ![nsup + 1] =
                 [ pc |-> "connecting",
                   ip |-> IF send.ds_mode = "Normal" THEN target_ip ELSE LOOPBACK ]]
    /\ tcp_connected' = TRUE
    /\ recvPc' = "estop"
    /\ UNCHANGED << send, recv, tcp_state_tx, sendVars, fwd_q, packet, connected,
                    target_ip, rx_q, sup_sig, simVars, facadeVars, events, ticks,
                    histVars >>
    /\ UNCHANGED <<pureVars, tagVars>>

\* lines 153-161: propagate an e-stop, store trace and battery, release the
\* recv-state lock.
RecvEstopStore ==
    /\ recvPc = "estop"
    /\ packet.estop => SendLockFree
    /\ send' = IF packet.estop /\ ~send.estopped THEN estop(send) ELSE send
    /\ recv' = [trace |-> packet.trace, battery |-> packet.battery]
    /\ packet' = NoPacket
    /\ recvPc' = "select"
    /\ UNCHANGED << tcp_state_tx, sendVars, fwd_q, connected, tcp_connected,
                    tcp_tx, target_ip, rx_q, supVars, simVars, facadeVars, events,
                    ticks, histVars >>
    /\ UNCHANGED <<pureVars, tagVars>>

\* line 163: a datagram that fails to decode is logged.
RecvDecodeError ==
    /\ recvPc = "select"
    /\ events < MaxEvents
    /\ events' = events + 1
    /\ UNCHANGED << send, recv, tcp_state_tx, sendVars, fwd_q, recvVars, rx_q,
                    supVars, simVars, facadeVars, ticks, histVars >>
    /\ UNCHANGED <<pureVars, tagVars>>

\* proto/udp/inbound.rs 27-28: a status or trace byte with a bit outside the
\* declared flags makes from_bits(..).unwrap() panic inside the loop.
RecvDecodePanic ==
    /\ recvPc = "select"
    /\ events < MaxEvents
    /\ events' = events + 1
    /\ recvPc' = "panicked"
    /\ rx_q' = <<>>
    /\ UNCHANGED << send, recv, tcp_state_tx, sendVars, fwd_q, packet, connected,
                    tcp_connected, tcp_tx, target_ip, supVars, simVars, facadeVars,
                    ticks, histVars >>
    /\ UNCHANGED <<pureVars, tagVars>>

\* What the loop does without a facade: datagrams, timeouts, and the
\* simulator detector's NewMode signals.
RecvLoop ==
    \/ RecvSigNewMode
    \/ RecvTimeout
    \/ \E p \in Responses : RecvPacket(p)
    \/ RecvNeedDate
    \/ RecvSpawnTcp
    \/ RecvEstopStore
    \/ RecvDecodeError
    \/ RecvDecodePanic

\* The signals only the facade posts.
RecvFacadeSignals ==
    \/ RecvSigDisconnect
    \/ RecvSigNewTarget

(***************************************************************************)
(* TCP supervisor (tcp_conn, conn.rs 212-250).                             *)
(***************************************************************************)
\* lines 217-222: the stream connects and the tag sender is installed.
SupConnectOk(g) ==
    /\ sup[g].pc = "connecting"
    /\ sup' = [sup EXCEPT ![g].pc = "running"]
    /\ tcp_state_tx' = g
    /\ UNCHANGED << send, recv, sendVars, fwd_q, recvVars, rx_q, sup_sig, nsup,
                    simVars, facadeVars, events, ticks, histVars >>
    /\ UNCHANGED <<pureVars, tagVars>>

\* line 217: the connect fails and the task returns the error.
SupConnectFail(g) ==
    /\ sup[g].pc = "connecting"
    /\ sup' = [sup EXCEPT ![g].pc = "exited"]
    /\ UNCHANGED << send, recv, tcp_state_tx, sendVars, fwd_q, recvVars, rx_q,
                    sup_sig, nsup, simVars, facadeVars, events, ticks, histVars >>
    /\ UNCHANGED <<pureVars, tagVars>>

\* line 236: end of the inbound stream.
SupEof(g) ==
    /\ sup[g].pc = "running"
    /\ sup' = [sup EXCEPT ![g].pc = "exited"]
    /\ UNCHANGED << send, recv, tcp_state_tx, sendVars, fwd_q, recvVars, rx_q,
                    sup_sig, nsup, simVars, facadeVars, events, ticks, histVars >>
    /\ UNCHANGED <<pureVars, tagVars>>

\* lines 238-240: any result of rx.recv(), a signal or end-of-stream,
\* clears the tag sender in the TCP state; the loop goes on.
SupSignal(g) ==
    /\ sup[g].pc = "running"
    /\ sup_sig[g] > 0 \/ SupSigClosed(g)
    /\ sup_sig' = [sup_sig EXCEPT ![g] = IF @ > 0 THEN @ - 1 ELSE 0]
    /\ tcp_state_tx' = 0
    /\ UNCHANGED << send, recv, sendVars, fwd_q, recvVars, rx_q, sup, nsup,
                    simVars, facadeVars, events, ticks, histVars >>
    /\ UNCHANGED <<pureVars, tagVars>>

\* lines 241-244: a queued tag is sent through the codec; a send error is
\* ignored.
SupTagSend(g) ==
    /\ sup[g].pc = "running"
    /\ tag_q[g] # <<>>
    /\ tag_q' = [tag_q EXCEPT ![g] = Tail(@)]
    /\ UNCHANGED << send, recv, tcp_state_tx, sendVars, fwd_q, recvVars, rx_q,
                    supVars, gsm_ret, simVars, facadeVars, events, ticks,
                    histVars, pureVars >>

\* line 245: the tag channel is empty and has no sender left.
SupTagClosed(g) ==
    /\ sup[g].pc = "running"
    /\ tcp_state_tx # g
    /\ tag_q[g] = <<>>
    /\ sup' = [sup EXCEPT ![g].pc = "exited"]
    /\ UNCHANGED << send, recv, tcp_state_tx, sendVars, fwd_q, recvVars, rx_q,
                    sup_sig, nsup, simVars, facadeVars, events, ticks, histVars >>
    /\ UNCHANGED <<pureVars, tagVars>>

SupTask ==
    \E g \in Sups :
        \/ SupConnectOk(g)
        \/ SupConnectFail(g)
        \/ SupEof(g)
        \/ SupSignal(g)
        \/ SupTagClosed(g)

(***************************************************************************)
(* Simulator detector (sim_conn, conn.rs 252-275).                         *)
(***************************************************************************)
\* tx.send(..).unwrap(): panics once the receive loop has dropped rx.
SimPost(sig) ==
    IF RecvEnded
      THEN simPc' = "panicked" /\ rx_q' = rx_q
      ELSE simPc' = simPc /\ rx_q' = Append(rx_q, sig)

\* lines 261-266: a probe datagram arrives.
SimProbe ==
    /\ simPc = "loop"
    /\ opmode # "Simulation"
    /\ events < MaxEvents
    /\ events' = events + 1
    /\ opmode' = "Simulation"
    /\ SimPost(NewMode("Simulation"))
    /\ enAfterIssue' = FALSE
    /\ UNCHANGED << send, recv, tcp_state_tx, sendVars, fwd_q, recvVars, supVars,
                    facadeVars, ticks, seqHist, reqHist, enAfterApply, lastEnable,
                    modeHist, responded >>
    /\ UNCHANGED <<pureVars, tagVars>>

\* lines 267-272: 250 ms without a probe.
SimTimeout ==
    /\ simPc = "loop"
    /\ opmode # "Normal"
    /\ events < MaxEvents
    /\ events' = events + 1
    /\ opmode' = "Normal"
    /\ SimPost(NewMode("Normal"))
    /\ enAfterIssue' = FALSE
    /\ UNCHANGED << send, recv, tcp_state_tx, sendVars, fwd_q, recvVars, supVars,
                    facadeVars, ticks, seqHist, reqHist, enAfterApply, lastEnable,
                    modeHist, responded >>
    /\ UNCHANGED <<pureVars, tagVars>>

SimTask == SimProbe \/ SimTimeout

(***************************************************************************)
(* Facade (DriverStation, ds.rs).  A mutator takes the send-state write    *)
(* lock, so it waits while the send task holds it.                         *)
(***************************************************************************)
FacadeCall ==
    /\ ds = "live"
    /\ events < MaxEvents
    /\ events' = events + 1

\* The variables no send-state mutator touches.
MutatorFrame ==
    UNCHANGED << recv, tcp_state_tx, sendVars, fwd_q, recvVars, rx_q, supVars,
                 simVars, facadeVars, ticks, seqHist, responded >>

\* ds.rs 152-154
Enable ==
    /\ FacadeCall
    /\ SendLockFree
    /\ send' = enable(send)
    /\ enAfterIssue' = TRUE
    /\ enAfterApply' = TRUE
    /\ lastEnable' = TRUE
    /\ MutatorFrame
    /\ UNCHANGED << reqHist, modeHist >>
    /\ UNCHANGED <<pureVars, tagVars>>

\* ds.rs 215-217
Disable ==
    /\ FacadeCall
    /\ SendLockFree
    /\ send' = disable(send)
    /\ lastEnable' = FALSE
    /\ MutatorFrame
    /\ UNCHANGED << reqHist, enAfterIssue, enAfterApply, modeHist >>
    /\ UNCHANGED <<pureVars, tagVars>>

\* ds.rs 95-97
SetMode(mode) ==
    /\ FacadeCall
    /\ SendLockFree
    /\ send' = set_mode(send, mode)
    /\ lastMode' = mode
    /\ resetAfterEstop' = resetAfterEstop
    /\ MutatorFrame
    /\ UNCHANGED << reqHist, enHist >>
    /\ UNCHANGED <<pureVars, tagVars>>

\* ds.rs 205-207
Estop ==
    /\ FacadeCall
    /\ SendLockFree
    /\ send' = estop(send)
    /\ MutatorFrame
    /\ UNCHANGED << reqHist, enHist, modeHist >>
    /\ UNCHANGED <<pureVars, tagVars>>

\* ds.rs 157-163
RestartCode ==
    /\ FacadeCall
    /\ SendLockFree
    /\ send' = request(send, REQUEST_RESTART_CODE)
    /\ owed' = owed \cup {REQUEST_RESTART_CODE}
    /\ emittedBits' = emittedBits
    /\ MutatorFrame
    /\ UNCHANGED << enHist, modeHist >>
    /\ UNCHANGED <<pureVars, tagVars>>

\* ds.rs 166-172
RestartRoborio ==
    /\ FacadeCall
    /\ SendLockFree
    /\ send' = request(send, REQUEST_REBOOT_ROBORIO)
    /\ owed' = owed \cup {REQUEST_REBOOT_ROBORIO}
    /\ emittedBits' = emittedBits
    /\ MutatorFrame
    /\ UNCHANGED << enHist, modeHist >>
    /\ UNCHANGED <<pureVars, tagVars>>

\* thread_tx.send(..).unwrap(): panics once the receive loop has dropped
\* rx; the unwinding drops the DriverStation.
FacadePost(sig) ==
    IF RecvEnded
      THEN ds' = "dropped" /\ rx_q' = rx_q
      ELSE ds' = ds /\ rx_q' = Append(rx_q, sig)

\* ds.rs 105-110
SetTeamNumber(team) ==
    /\ FacadeCall
    /\ team_number' = team
    /\ FacadePost(NewTarget(ip_from_team_number(team)[1]))
    /\ enAfterIssue' = FALSE
    /\ UNCHANGED << send, recv, tcp_state_tx, sendVars, fwd_q, recvVars, supVars,
                    simVars, newPc, ticks, seqHist, reqHist, enAfterApply,
                    lastEnable, modeHist, responded >>
    /\ UNCHANGED <<pureVars, tagVars>>

\* ds.rs 112-122
SetUseUsb(use_usb) ==
    /\ FacadeCall
    /\ FacadePost(NewTarget(IF use_usb THEN USB_IP
                            ELSE ip_from_team_number(team_number)[1]))
    /\ enAfterIssue' = FALSE
    /\ UNCHANGED << send, recv, tcp_state_tx, sendVars, fwd_q, recvVars, supVars,
                    simVars, team_number, newPc, ticks, seqHist, reqHist,
                    enAfterApply, lastEnable, modeHist, responded >>
    /\ UNCHANGED <<pureVars, tagVars>>

\* TcpState::queue_tcp: the tag goes to the channel of the installed sender;
\* with no sender installed, or with the receiver gone, nothing is queued
\* and the caller gets the error.
queue_tcp(tag) ==
    IF tcp_state_tx # 0 /\ sup[tcp_state_tx].pc = "running"
      THEN [tag_q EXCEPT ![tcp_state_tx] = Append(@, tag)]
      ELSE tag_q

\* Game-specific messages as UTF-8 bytes: "", "LR", "LRL", "LRLR".
Messages == {<<>>, <<76, 82>>, <<76, 82, 76>>, <<76, 82, 76, 82>>}

\* ds.rs 130-144: the length check, then queue_tcp with its result ignored.
SetGameSpecificMessage(message) ==
    /\ FacadeCall
    /\ IF Len(message) # 3
         THEN gsm_ret' = "Err" /\ tag_q' = tag_q
         ELSE gsm_ret' = "Ok" /\ tag_q' = queue_tcp(message)
    /\ UNCHANGED << send, recv, tcp_state_tx, sendVars, fwd_q, recvVars, rx_q,
                    supVars, simVars, facadeVars, ticks, histVars, pureVars >>

\* ds.rs 259-264: Drop posts Disconnect and ignores a closed channel.
Drop ==
    /\ ds = "live"
    /\ ds' = "dropped"
    /\ rx_q' = IF RecvEnded THEN rx_q ELSE Append(rx_q, Disconnect)
    /\ UNCHANGED << send, recv, tcp_state_tx, sendVars, fwd_q, recvVars, supVars,
                    simVars, team_number, newPc, events, ticks, histVars >>
    /\ UNCHANGED <<pureVars, tagVars>>

Facade ==
    \/ Enable
    \/ Disable
    \/ \E mode \in Modes : SetMode(mode)
    \/ Estop
    \/ RestartCode
    \/ RestartRoborio
    \/ \E team \in Teams : SetTeamNumber(team)
    \/ \E use_usb \in BOOLEAN : SetUseUsb(use_usb)
    \/ Drop

(***************************************************************************)
(* Construction (DriverStation::new, ds.rs 41-65).                         *)
(***************************************************************************)
\* ds.rs 43-56: the channel and the state are created, the simulator
\* detector is spawned, and udp_conn is called and awaited.
NewSpawn ==
    /\ newPc = "start"
    /\ newPc' = "udp_conn"
    /\ simPc' = "bind"
    /\ recvPc' = "bind"
    /\ UNCHANGED << send, recv, tcp_state_tx, sendVars, fwd_q, packet, connected,
                    tcp_connected, tcp_tx, target_ip, rx_q, supVars, opmode, ds,
                    team_number, events, ticks, histVars >>
    /\ UNCHANGED <<pureVars, tagVars>>

\* conn.rs 256: the probe socket binds, or the task panics on the error.
SimBind(ok) ==
    /\ simPc = "bind"
    /\ simPc' = IF ok THEN "loop" ELSE "panicked"
    /\ UNCHANGED << send, recv, tcp_state_tx, sendVars, fwd_q, recvVars, rx_q,
                    supVars, opmode, facadeVars, events, ticks, histVars >>
    /\ UNCHANGED <<pureVars, tagVars>>

\* conn.rs 41-48: the receive socket binds and the send task is spawned, or
\* udp_conn returns the error.
RecvBind(ok) ==
    /\ recvPc = "bind"
    /\ IF ok THEN recvPc' = "select" /\ sendPc' = "bind"
             ELSE recvPc' = "failed" /\ sendPc' = sendPc
    /\ UNCHANGED << send, recv, tcp_state_tx, v, udp_tx, backoff, sig_ip, fwd_eof,
                    fwd_q, packet, connected, tcp_connected, tcp_tx, target_ip,
                    rx_q, supVars, simVars, facadeVars, events, ticks, histVars >>
    /\ UNCHANGED <<pureVars, tagVars>>

\* conn.rs 49-60: the send socket binds and connects to the target, or the
\* task panics.
SendBind(ok) ==
    /\ sendPc = "bind"
    /\ IF ok /\ WellFormedIp(target_ip)
         THEN sendPc' = "select" /\ udp_tx' = target_ip
         ELSE sendPc' = "panicked" /\ udp_tx' = udp_tx
    /\ UNCHANGED << send, recv, tcp_state_tx, v, backoff, sig_ip, fwd_eof, fwd_q,
                    recvVars, rx_q, supVars, simVars, facadeVars, events, ticks,
                    histVars >>
    /\ UNCHANGED <<pureVars, tagVars>>

\* ds.rs 56-64: udp_conn has returned.  Ok yields the DriverStation; an
\* error, or a panic inside the loop, panics the constructor.
NewFinish ==
    /\ newPc = "udp_conn"
    /\ RecvEnded
    /\ IF recvPc = "done"
         THEN newPc' = "returned" /\ ds' = "live"
         ELSE newPc' = "panicked" /\ ds' = ds
    /\ UNCHANGED << send, recv, tcp_state_tx, sendVars, fwd_q, recvVars, rx_q,
                    supVars, simVars, team_number, events, ticks, histVars >>
    /\ UNCHANGED <<pureVars, tagVars>>

Construction ==
    \/ NewSpawn
    \/ \E ok \in BOOLEAN : SimBind(ok)
    \/ \E ok \in BOOLEAN : RecvBind(ok)
    \/ \E ok \in BOOLEAN : SendBind(ok)
    \/ NewFinish

InitNew ==
    /\ InitCommon(0)
    /\ sendPc = "unspawned"
    /\ udp_tx = <<>>
    /\ recvPc = "unstarted"
    /\ simPc = "unspawned"
    /\ ds = "none"
    /\ newPc = "start"

(***************************************************************************)
(* Codec and utility functions (util.rs, proto/udp/inbound.rs,             *)
(* proto/udp/outbound/types/tags.rs), applied to inputs one at a time.     *)
(***************************************************************************)
Reverse(s) == [i \in 1..Len(s) |-> s[Len(s) + 1 - i]]

\* util.rs 14-27: the byte of the chunk that starts at chunk_start, bit
\* bit_pos set when the boolean at chunk_start + bit_pos is true.
RECURSIVE ChunkByte(_, _, _)
ChunkByte(vec_in, chunk_start, bit_pos) ==
    IF bit_pos = 8 \/ chunk_start + bit_pos >= Len(vec_in) THEN 0
    ELSE (IF vec_in[chunk_start + bit_pos + 1] THEN Pow(2, bit_pos) ELSE 0)
         + ChunkByte(vec_in, chunk_start, bit_pos + 1)

\* A packing that leaves the chunks in input order.
to_u8_vec_unreversed(vec_in) ==
    [c \in 1..((Len(vec_in) + 7) \div 8) |-> ChunkByte(vec_in, 8 * (c - 1), 0)]

\* util.rs 6-35
to_u8_vec(vec_in) ==
    Reverse([c \in 1..((Len(vec_in) + 7) \div 8) |-> ChunkByte(vec_in, 8 * (c - 1), 0)])

\* put_i8 and put_i16 (big-endian) of a signed value.
put_i8(x) == <<x % 256>>
put_i16(x) == <<(x % U16) \div 256, (x % U16) % 256>>

\* tags.rs 108-145: Joysticks::data
Joysticks_data(j) ==
    <<Len(j.axes)>>
        \o Flatten([i \in 1..Len(j.axes) |-> put_i8(j.axes[i])])
        \o <<Len(j.buttons)>> \o to_u8_vec(j.buttons)
        \o <<Len(j.povs)>>
        \o Flatten([i \in 1..Len(j.povs) |-> put_i16(j.povs[i])])

Joysticks_construct(j) == construct(TAG_JOYSTICKS, Joysticks_data(j))

\* bitflags from_bits: None when a bit outside every declared flag is set.
from_bits(flags, bits) ==
    IF \A k \in 0..7 : HasBit(bits, Pow(2, k)) => \E f \in flags : HasBit(f, Pow(2, k))
      THEN Some(bits) ELSE None

\* inbound/types.rs 34-43 and 61-67
StatusFlags == {128, 16, 8, 4, 0, 1, 2}
TraceFlags == {32, 16, 8, 4, 2, 1}

\* inbound/types.rs 29: the payload size of each stub tag, by the id that
\* inbound.rs 36-57 matches; 0 for the ids of the `_ => {}` arm.
ChompSize(tag_id) ==
    CASE tag_id = 1 -> 8
      [] tag_id = 4 -> 4
      [] tag_id = 5 -> 20
      [] tag_id = 6 -> 8
      [] tag_id = 8 -> 25
      [] tag_id = 9 -> 9
      [] tag_id = 14 -> 14
      [] OTHER -> 0

KnownTagIds == {1, 4, 5, 6, 8, 9, 14}

\* inbound.rs 35-60: the tag loop reads an id while a byte is left, chomps
\* the payload of a known id (an underrun is the Err of `?`) and goes on
\* to the next byte after any other id.  TRUE when the loop ends normally.
RECURSIVE TagLoop(_)
TagLoop(buf) ==
    IF buf = <<>> THEN TRUE
    ELSE LET n == ChompSize(Head(buf))
         IN  IF Len(buf) - 1 < n THEN FALSE
             ELSE TagLoop(SubSeq(buf, n + 2, Len(buf)))

DecodeErr == [tag |-> "Err"]
DecodePanic == [tag |-> "Panic"]

\* The packet the eight header bytes describe; the battery in 1/256 V.
HeaderPacket(buf) ==
    [ tag |-> "Ok", seqnum |-> buf[1] * 256 + buf[2], status |-> buf[4],
      trace |-> buf[5], battery |-> buf[6] * 256 + buf[7],
      need_date |-> (buf[8] = 1) ]

\* inbound.rs 24-70: UdpResponsePacket::decode, the reads in order.
decode(buf) ==
    IF Len(buf) < 4 THEN DecodeErr
    ELSE IF from_bits(StatusFlags, buf[4]) = None THEN DecodePanic
    ELSE IF Len(buf) < 5 THEN DecodeErr
    ELSE IF from_bits(TraceFlags, buf[5]) = None THEN DecodePanic
    ELSE IF Len(buf) < 8 THEN DecodeErr
    ELSE IF ~TagLoop(SubSeq(buf, 9, Len(buf))) THEN DecodeErr
    ELSE HeaderPacket(buf)

\* Inputs.  Boolean vectors up to MaxBools; header bytes that sweep the
\* status and the trace byte; truncated headers; tag sections up to MaxTail
\* bytes over a known id (DiskInfo) and an unknown one.
RECURSIVE SeqsUpTo(_, _)
SeqsUpTo(S, n) ==
    IF n = 0 THEN {<<>>}
    ELSE LET shorter == SeqsUpTo(S, n - 1)
         IN  shorter \cup {Append(q, x) : q \in {r \in shorter : Len(r) = n - 1}, x \in S}

BoolVectors == SeqsUpTo(BOOLEAN, MaxBools)

SampleHeader == <<18, 52, COMM_VERSION, CONTROL_ENABLED, TRACE_ROBOT_CODE, 12, 95, 1>>
Bytes == 0..255
TailBytes == {4, 255}

DecodeInputs ==
    {[SampleHeader EXCEPT ![4] = b] : b \in Bytes}
        \cup {[SampleHeader EXCEPT ![5] = b] : b \in Bytes}
        \cup {[SampleHeader EXCEPT ![6] = h, ![7] = l, ![8] = d] :
                  h \in {0, 255}, l \in {0, 255}, d \in {0, 1, 2}}
        \cup {SubSeq(hd, 1, n) : hd \in {SampleHeader, [SampleHeader EXCEPT ![4] = 96]},
                                 n \in 0..7}
        \cup {SampleHeader \o t : t \in SeqsUpTo(TailBytes, MaxTail)}

JoystickInputs ==
    [ axes : {<<>>, <<-128, 0, 127>>},
      buttons : {<<>>, <<TRUE>>,
                 <<TRUE, FALSE, TRUE, FALSE, FALSE, FALSE, FALSE, FALSE, TRUE>>},
      povs : {<<>>, <<-1>>, <<0, 18000>>} ]

\* Each run applies one function to one input.
TeamInputs == {7, 99, 100, 4533, 30000, U16 - 1, 99999, 100000, 100001}
U16Teams == {t \in TeamInputs : t < U16}

DecodeStep ==
    /\ called = "none"
    /\ \E buf \in DecodeInputs :
          called' = "decode" /\ arg' = buf /\ ret' = decode(buf)
    /\ UNCHANGED <<engineVars, runs, streak>>

JoysticksStep ==
    /\ called = "none"
    /\ \E j \in JoystickInputs :
          called' = "Joysticks" /\ arg' = j /\ ret' = Joysticks_construct(j)
    /\ UNCHANGED <<engineVars, runs, streak>>

ToU8VecStep ==
    /\ called = "none"
    /\ \E vec_in \in BoolVectors :
          called' = "to_u8_vec" /\ arg' = vec_in /\ ret' = to_u8_vec(vec_in)
    /\ UNCHANGED <<engineVars, runs, streak>>

IpStep ==
    /\ called = "none"
    /\ \E team \in TeamInputs :
          called' = "ip_from_team_number" /\ arg' = team
              /\ ret' = ip_from_team_number(team)
    /\ UNCHANGED <<engineVars, runs, streak>>

(***************************************************************************)
(* ExponentialBackoff driven call by call (backoff.rs 23-49): the send      *)
(* task's backoff object under any sequence of run and reset.              *)
(***************************************************************************)
\* lines 31-35: the future succeeds.
BackoffRunOk ==
    /\ runs < MaxRuns
    /\ runs' = runs + 1
    /\ backoff' = run_ok(backoff)
    /\ streak' = 0
    /\ called' = "run"
    /\ ret' = [ok |-> TRUE, first_failure |-> FALSE]
    /\ UNCHANGED << send, recv, tcp_state_tx, sendPc, v, udp_tx, sig_ip, fwd_eof,
                    fwd_q, recvVars, rx_q, supVars, tagVars, simVars, facadeVars,
                    events, ticks, histVars, arg >>

\* lines 36-41: the future fails; the error comes back with the flag.
BackoffRunErr ==
    /\ runs < MaxRuns
    /\ runs' = runs + 1
    /\ backoff' = run_err(backoff).backoff
    /\ streak' = streak + 1
    /\ called' = "run"
    /\ ret' = [ok |-> FALSE, first_failure |-> run_err(backoff).disconnected]
    /\ UNCHANGED << send, recv, tcp_state_tx, sendPc, v, udp_tx, sig_ip, fwd_eof,
                    fwd_q, recvVars, rx_q, supVars, tagVars, simVars, facadeVars,
                    events, ticks, histVars, arg >>

\* lines 45-49
BackoffReset ==
    /\ runs < MaxRuns
    /\ runs' = runs + 1
    /\ backoff' = backoff_reset(backoff)
    /\ streak' = 0
    /\ called' = "reset"
    /\ ret' = <<>>
    /\ UNCHANGED << send, recv, tcp_state_tx, sendPc, v, udp_tx, sig_ip, fwd_eof,
                    fwd_q, recvVars, rx_q, supVars, tagVars, simVars, facadeVars,
                    events, ticks, histVars, arg >>

(***************************************************************************)
(* Specifications.  Spec: the engine running with a DriverStation handle   *)
(* in the caller's hands.  SpecNew: the constructor as written, from the   *)
(* call of new().                                                          *)
(***************************************************************************)
Next ==
    \/ SendTask
    \/ RecvLoop
    \/ RecvFacadeSignals
    \/ SupTask
    \/ SimTask
    \/ Facade

Spec == Init /\ [][Next]_vars

NextNew ==
    \/ Construction
    \/ SendTask
    \/ RecvLoop
    \/ SupTask
    \/ SimTask

SpecNew == InitNew /\ [][NextNew]_vars

\* The engine after SeqStart quiet ticks, one short of the u16 wrap.
SeqStart == U16 - 1
InitWrap ==
    /\ InitCommon(SeqStart)
    /\ sendPc = "select"
    /\ udp_tx = InitIp
    /\ recvPc = "select"
    /\ simPc = "loop"
    /\ ds = "live"
    /\ newPc = "returned"

SpecWrap == InitWrap /\ [][Next]_vars

\* The engine with a facade that also sets game-specific messages.
NextTcp ==
    \/ Next
    \/ \E message \in Messages : SetGameSpecificMessage(message)
    \/ \E g \in Sups : SupTagSend(g)

SpecTcp == Init /\ [][NextTcp]_vars

\* The engine from the state in which the first response of the RIO has
\* been handled: the receive loop has spawned supervisor 1 for the target
\* address, its stream has connected and its tag sender is installed.
InitRestart ==
    /\ \E m \in Modes : send = SendStateNew(InitAlliance, m)
    /\ recv = [trace |-> TRACE_ROBOT_CODE + TRACE_IS_ROBORIO, battery |-> 12]
    /\ tcp_state_tx = 1
    /\ sendPc = "select"
    /\ v = <<>>
    /\ udp_tx = InitIp
    /\ backoff = BackoffNew
    /\ sig_ip = <<>>
    /\ fwd_q = <<>>
    /\ fwd_eof = FALSE
    /\ recvPc = "select"
    /\ packet = NoPacket
    /\ connected = TRUE
    /\ tcp_connected = TRUE
    /\ tcp_tx = 1
    /\ target_ip = InitIp
    /\ rx_q = <<>>
    /\ sup = [g \in Sups |-> IF g = 1 THEN [pc |-> "running", ip |-> InitIp] ELSE NoSup]
    /\ sup_sig = [g \in Sups |-> 0]
    /\ nsup = 1
    /\ tag_q = [g \in Sups |-> <<>>]
    /\ gsm_ret = "none"
    /\ simPc = "loop"
    /\ opmode = "Normal"
    /\ ds = "live"
    /\ team_number = InitTeam
    /\ newPc = "returned"
    /\ events = 0
    /\ ticks = 0
    /\ lastBuilt = -1
    /\ lastEmit = -1
    /\ owed = {}
    /\ emittedBits = {}
    /\ enAfterIssue = FALSE
    /\ enAfterApply = FALSE
    /\ lastEnable = FALSE
    /\ lastMode = "none"
    /\ resetAfterEstop = FALSE
    /\ responded = TRUE
    /\ called = "none"
    /\ arg = <<>>
    /\ ret = <<>>
    /\ runs = 0
    /\ streak = 0

SpecRestart == InitRestart /\ [][Next]_vars

\* The engine from the state in which the simulator has appeared and both
\* tasks have handled it: the detector and the send state are in
\* Simulation, the send task has reset the sequence number and the recv
\* state and moved the send socket to the loopback address.
InitSim ==
    /\ \E m \in Modes : send = set_ds_mode(SendStateNew(InitAlliance, m), "Simulation")
    /\ recv = RecvStateNew
    /\ tcp_state_tx = 0
    /\ sendPc = "select"
    /\ v = <<>>
    /\ udp_tx = LOOPBACK
    /\ backoff = BackoffNew
    /\ sig_ip = <<>>
    /\ fwd_q = <<>>
    /\ fwd_eof = FALSE
    /\ recvPc = "select"
    /\ packet = NoPacket
    /\ connected = TRUE
    /\ tcp_connected = FALSE
    /\ tcp_tx = 0
    /\ target_ip = InitIp
    /\ rx_q = <<>>
    /\ sup = [g \in Sups |-> NoSup]
    /\ sup_sig = [g \in Sups |-> 0]
    /\ nsup = 0
    /\ tag_q = [g \in Sups |-> <<>>]
    /\ gsm_ret = "none"
    /\ simPc = "loop"
    /\ opmode = "Simulation"
    /\ ds = "live"
    /\ team_number = InitTeam
    /\ newPc = "returned"
    /\ events = 0
    /\ ticks = 0
    /\ lastBuilt = -1
    /\ lastEmit = -1
    /\ owed = {}
    /\ emittedBits = {}
    /\ enAfterIssue = FALSE
    /\ enAfterApply = FALSE
    /\ lastEnable = FALSE
    /\ lastMode = "none"
    /\ resetAfterEstop = FALSE
    /\ responded = FALSE
    /\ called = "none"
    /\ arg = <<>>
    /\ ret = <<>>
    /\ runs = 0
    /\ streak = 0

SpecSim == InitSim /\ [][Next]_vars

\* The codec and utility functions applied to their inputs, next to a
\* facade that is given team numbers.
InitPure ==
    /\ Init
    /\ send.mode = "Teleop"

NextPure ==
    \/ DecodeStep
    \/ JoysticksStep
    \/ ToU8VecStep
    \/ IpStep
    \/ \E team \in U16Teams : SetTeamNumber(team)

SpecPure == InitPure /\ [][NextPure]_vars

\* The backoff object under run and reset calls.
NextBackoff ==
    \/ BackoffRunOk
    \/ BackoffRunErr
    \/ BackoffReset

\* Ceilings given to ExponentialBackoff::new: the send task's 5 s and
\* shorter ones, on and off the powers of 20.
MaxTimeouts == {1, 20, 100, 400, BACKOFF_MAX_MS}

InitBackoff ==
    /\ InitShared(0)
    /\ send.mode = "Teleop"
    /\ \E m \in MaxTimeouts : backoff = backoff_new(m)
    /\ sendPc = "select"
    /\ udp_tx = InitIp
    /\ recvPc = "select"
    /\ simPc = "loop"
    /\ ds = "live"
    /\ newPc = "returned"

SpecBackoff == InitBackoff /\ [][NextBackoff]_vars

(***************************************************************************)
(* Properties.                                                             *)
(***************************************************************************)
\* C1 as stated: between two reconfigurations the sequence numbers of the
\* packets the send task emits are s, s+1, ... modulo 2^16 without a gap,
\* also across a tick whose send fails.
C1_EmittedContiguous ==
    [][TickSendOk => (lastEmit = -1 \/ SeqOf(v) = (lastEmit + 1) % U16)]_vars

\* C1 amended: between two resets applied by the send task the packets
\* built in consecutive ticks carry s, s+1, ... modulo 2^16 without a gap,
\* and an emitted packet is the one its tick built; a tick whose send fails
\* uses up its number.
C1_BuiltContiguous ==
    [][ /\ SendTick => (lastBuilt = -1 \/ SeqOf(v') = (lastBuilt + 1) % U16)
        /\ TickSendOk => SeqOf(v) = lastBuilt ]_vars

\* The packet numbered 0 is built after 65534 was emitted and the send of
\* 65535 failed.
C1_Witness ==
    /\ sendPc = "tick_send"
    /\ SeqOf(v) = 0
    /\ lastBuilt = 0
    /\ lastEmit = U16 - 2

\* C2: every request bit invoked by restart_code / restart_roborio stays
\* pending in the send state until a packet carrying it has been
\* transmitted, so that exactly one emitted packet carries it.
C2_RequestKeptUntilSent ==
    \A b \in owed :
        \/ HasBit(send.pending_request, b)
        \/ (v # <<>> /\ b \in RequestBits(v))

\* C3: a request bit appears on at most one emitted packet per invocation:
\* every emitted packet carries only bits invoked since the last packet
\* that carried them.
C3_RequestAtMostOnce ==
    [][TickSendOk => RequestBits(v) \subseteq owed]_vars

\* A request was emitted and a later tick has built a packet without it.
C3_Witness ==
    /\ emittedBits # {}
    /\ owed = {}
    /\ sendPc = "tick_send"
    /\ RequestBits(v) = {}
    /\ SeqOf(v) > 0

\* C4 as stated: no packet with the enabled bit is emitted after a
\* reconfiguration has been issued unless enable() was called after it.
C4_NoEnabledAfterIssue ==
    [][(TickSendOk /\ HasBit(ControlOf(v), CONTROL_ENABLED)) => enAfterIssue]_vars

\* C4 amended: once the send task has applied a reset, the send state is
\* disabled and no packet with the enabled bit is built until enable() is
\* called after that application.
C4_DisabledAfterApply ==
    ~enAfterApply =>
        /\ ~send.enabled
        /\ v # <<>> => ~HasBit(ControlOf(v), CONTROL_ENABLED)

\* enable() was called after the reconfiguration was issued and before the
\* send task applied it; the next packet is built disabled.
C4_Witness ==
    /\ enAfterIssue
    /\ ~enAfterApply
    /\ sendPc = "tick_send"
    /\ ~HasBit(ControlOf(v), CONTROL_ENABLED)

\* C5: once the e-stop is latched in the send state, every step keeps it
\* latched and every packet built carries the e-stop bit.
C5_EstopSticky ==
    [][send.estopped =>
          /\ send'.estopped
          /\ v' # <<>> => HasBit(ControlOf(v'), CONTROL_ESTOP)]_vars

\* A reset was applied while the e-stop was latched, and the packet built
\* afterwards for the new target carries the bit.
C5_Witness ==
    /\ resetAfterEstop
    /\ sendPc = "tick_send"
    /\ HasBit(ControlOf(v), CONTROL_ESTOP)
    /\ udp_tx # InitIp

\* C6: whenever the receive loop waits in its select, a TCP supervisor that
\* has not been told to disconnect is running if and only if a UDP response
\* was decoded since the last reconfiguration.
C6_SupervisorIffResponded ==
    recvPc = "select" =>
        (responded <=>
            \E g \in Sups : /\ sup[g].pc \in {"connecting", "running"}
                            /\ tcp_tx = g
                            /\ sup_sig[g] = 0)

\* C7: after the facade is dropped and the receive loop has returned on
\* the Disconnect, the send task ends when it finds its forwarded-signal
\* channel closed.
C7_SendExitsOnClose ==
    (ds = "dropped" /\ recvPc = "done" /\ fwd_eof) =>
        sendPc \in {"exited", "panicked"}

\* C8: once new() has spawned the tasks and the receive loop runs, new() can
\* return the DriverStation.
C8_NewReturnsWhileRunning ==
    (newPc = "udp_conn" /\ recvPc = "select") => ENABLED NewFinish

C10_ControlByte ==
    v # <<>> =>
        /\ lastMode = "Teleop" => ControlOf(v) % 4 = 0
        /\ lastMode = "Test" => ControlOf(v) % 4 = 1
        /\ lastMode = "Autonomous" => ControlOf(v) % 4 = 2
        /\ HasBit(ControlOf(v), CONTROL_ENABLED) <=> lastEnable

\* set_mode(Autonomous) and enable() are followed by a packet with control
\* byte 6.
C10_Witness ==
    /\ sendPc = "tick_send"
    /\ lastMode = "Autonomous"
    /\ lastEnable
    /\ ControlOf(v) = CONTROL_AUTO + CONTROL_ENABLED

\* C11: whenever every posted signal has been processed, the send socket
\* is connected to the loopback address if the DsMode of the send state is
\* Simulation and to the current target address if it is Normal.
C11_SocketFollowsDsMode ==
    (rx_q = <<>> /\ fwd_q = <<>> /\ sendPc = "select" /\ recvPc = "select") =>
        /\ send.ds_mode = "Simulation" => udp_tx = LOOPBACK
        /\ send.ds_mode = "Normal" => udp_tx = target_ip

\* C18: once the e-stop is latched the robot is disabled and cannot be
\* enabled: the send state is not enabled and no packet built carries the
\* enabled bit.
C18_EstopDisallowsEnable ==
    send.estopped =>
        /\ ~send.enabled
        /\ v # <<>> => ~HasBit(ControlOf(v), CONTROL_ENABLED)

\* C19: once a bind at construction has failed (the task that binds has
\* panicked or udp_conn has returned the error), the constructor has ended
\* with an error or can end with one now, and after it has ended with an
\* error no engine task is running.
C19_BindFailureReported ==
    LET bindFailed == simPc = "panicked" \/ sendPc = "panicked" \/ recvPc = "failed"
        taskRunning ==
            \/ simPc \in {"bind", "loop"}
            \/ sendPc \in {"bind", "select", "tick_send", "tick_recv", "sig_recv"}
            \/ \E g \in Sups : sup[g].pc \in {"connecting", "running"}
    IN  /\ bindFailed => (newPc = "panicked" \/ ENABLED NewFinish)
        /\ newPc = "panicked" => ~taskRunning

\* C20: when no TCP supervisor is alive, the handling of a decoded UDP
\* response goes through the spawn of a new supervisor.
C20_RespawnOnResponse ==
    [][ (\A g \in Sups : sup[g].pc \notin {"connecting", "running"}) =>
          /\ (recvPc = "select" /\ recvPc' \in {"need_date", "spawn_tcp", "estop"})
                => recvPc' # "estop"
          /\ (recvPc = "need_date" /\ recvPc' # "need_date")
                => recvPc' = "spawn_tcp" ]_vars

\* C12: a datagram with a complete, valid header and an unrecognized tag id
\* right after it decodes to the packet of its header, whatever bytes
\* follow the id.
C12_UnknownIdEndsLoop ==
    ( /\ called = "decode"
      /\ Len(arg) >= 9
      /\ from_bits(StatusFlags, arg[4]) # None
      /\ from_bits(TraceFlags, arg[5]) # None
      /\ arg[9] \notin KnownTagIds ) => ret = HeaderPacket(arg)

\* C13: decode fails with an error on fewer than 8 bytes and returns the
\* packet of the header bytes on exactly 8, for every status and trace
\* byte, without a panic.
C13_HeaderDecodes ==
    called = "decode" =>
        /\ Len(arg) < 8 => ret = DecodeErr
        /\ Len(arg) = 8 => ret = HeaderPacket(arg)

\* C14: Joysticks(axes [-128,0,127], buttons [T,F,T,F,F,F,F,F,T],
\* povs [0,18000]).construct() is 0D 0C 03 80 00 7F 09 05 01 02 00 00 46 50,
\* the byte of buttons 0..7 before the byte of button 8.
C14_JoysticksBytes ==
    ( /\ called = "Joysticks"
      /\ arg = [ axes |-> <<-128, 0, 127>>,
                 buttons |-> <<TRUE, FALSE, TRUE, FALSE, FALSE, FALSE, FALSE,
                               FALSE, TRUE>>,
                 povs |-> <<0, 18000>> ] )
        => ret = <<13, 12, 3, 128, 0, 127, 9, 5, 1, 2, 0, 0, 70, 80>>

C16_TeamIp ==
    [][ LET Derived(team) ==
                IF team < 100 THEN <<10, 0, team, 2>>
                ELSE <<10, team \div 100, team % 100, 2>>
        IN  /\ called' = "ip_from_team_number" =>
                  IF arg' >= 100000 THEN ret' = None ELSE ret' = Some(Derived(arg'))
            /\ \A t \in U16Teams :
                  SetTeamNumber(t) =>
                      /\ team_number' = t
                      /\ rx_q' = Append(rx_q, NewTarget(Derived(t))) ]_vars

C16_Witness ==
    /\ called = "ip_from_team_number"
    /\ arg = 100000
    /\ ret = None
    /\ team_number = U16 - 1
    /\ rx_q = <<NewTarget(<<10, 655, 35, 2>>)>>

\* C17: set_game_specific_message(m) returns an error and changes nothing
\* when the length of m is not 3; when it is 3 it returns Ok and m is
\* appended to the tag channel of a TCP supervisor.
C17_GameDataEnqueued ==
    [][ \A message \in Messages :
          SetGameSpecificMessage(message) =>
              IF Len(message) # 3
                THEN gsm_ret' = "Err"
                     /\ UNCHANGED <<tcp_state_tx, tag_q, rx_q, fwd_q, send>>
                ELSE gsm_ret' = "Ok"
                     /\ \E g \in Sups : tag_q' = [tag_q EXCEPT ![g] = Append(@, message)]
      ]_vars

\* C21: the handling of a response with need_date appends exactly one
\* DateTime tag to the pending UDP queue and nothing else appends to it;
\* the next packet the send task builds carries the queued tags and the
\* build empties the queue, so no later packet carries them.
C21_DateTagOnce ==
    [][ /\ RecvNeedDate =>
              /\ packet.need_date
              /\ send'.pending_udp = Append(send.pending_udp, DateTimeTag)
        /\ (\E p \in Responses : RecvPacket(p)) => send' = send
        /\ send'.pending_udp # send.pending_udp => (RecvNeedDate \/ SendTick)
        /\ SendTick =>
              /\ SubSeq(v', 7, Len(v')) = Flatten(send.pending_udp)
              /\ send'.pending_udp = <<>> ]_vars

\* The second packet of a run is built with the DateTime tag of a response
\* that came after the first, and the queue is empty again.
C21_Witness ==
    /\ sendPc = "tick_send"
    /\ SeqOf(v) = 1
    /\ SubSeq(v, 7, Len(v)) = DateTimeTag
    /\ send.pending_udp = <<>>

\* C22: a failing run returns first_failure = TRUE exactly when attempt was
\* 0 at entry, which is exactly when no run has failed since construction,
\* the last successful run or the last reset.
C22_FirstFailureFlag ==
    [][ BackoffRunErr =>
          /\ ret'.first_failure <=> (backoff.attempt = 0)
          /\ (backoff.attempt = 0) <=> (streak = 0) ]_vars

\* A second failure in a row, after an earlier reset or success, has
\* returned FALSE.
C22_Witness ==
    /\ called = "run"
    /\ ret = [ok |-> FALSE, first_failure |-> FALSE]
    /\ streak = 2
    /\ runs = 4

\* C23: after k >= 1 failed runs in a row the pending timeout is
\* min(20^(k-1) ms, max_timeout); it never exceeds max_timeout, does not
\* decrease from one failure to the next, stays at max_timeout once use_max
\* is set, and a successful run or reset() leaves attempt 0, use_max false
\* and no pending timeout.
C23_BackoffDelay ==
    [][ LET b == backoff'
        IN  /\ streak' >= 1 =>
                  b.timeout = Some(MinOf(Pow(BACKOFF_BASE_MS, streak' - 1), b.max_timeout))
            /\ b.timeout # None => b.timeout[1] <= b.max_timeout
            /\ (BackoffRunErr /\ backoff.timeout # None) =>
                  b.timeout[1] >= backoff.timeout[1]
            /\ (BackoffRunErr /\ backoff.use_max) =>
                  (b.use_max /\ b.timeout = Some(b.max_timeout))
            /\ (BackoffRunOk \/ BackoffReset) =>
                  (b.attempt = 0 /\ ~b.use_max /\ b.timeout = None) ]_vars

\* Five failures in a row under a 100 ms ceiling: 1, 20, 100, 100, 100.
C23_Witness ==
    /\ streak = 5
    /\ backoff.max_timeout = 100
    /\ backoff.use_max
    /\ backoff.timeout = Some(100)

\* C24 as stated: with the 5 s ceiling the pending delay is at the ceiling
\* from the second failure in a row on.
C24_CeilingAfterTwo ==
    (backoff.max_timeout = BACKOFF_MAX_MS /\ streak >= 2) =>
        backoff.timeout = Some(BACKOFF_MAX_MS)

\* C24 amended: with the 5 s ceiling the pending delay is 1, 20 and 400 ms
\* after the first three failures in a row, is at the ceiling from the
\* fourth on, and leaves the ceiling only by a successful run or a reset.
C24_CeilingAfterFour ==
    [][ LET b == backoff'
        IN  b.max_timeout = BACKOFF_MAX_MS =>
              /\ streak' \in 1..3 =>
                    (b.timeout = Some(Pow(BACKOFF_BASE_MS, streak' - 1))
                        /\ b.timeout[1] < BACKOFF_MAX_MS)
              /\ streak' >= 4 => b.timeout = Some(BACKOFF_MAX_MS)
              /\ (backoff.timeout = Some(BACKOFF_MAX_MS) /\ b.timeout # backoff.timeout)
                    => (BackoffRunOk \/ BackoffReset) ]_vars

\* The fifth failure in a row under the 5 s ceiling.
C24_Witness ==
    /\ backoff.max_timeout = BACKOFF_MAX_MS
    /\ streak = 5
    /\ backoff.timeout = Some(BACKOFF_MAX_MS)

\* C25: on a failed send the send task goes on to reset the recv state
\* exactly when the error is connection-refused and no run has failed since
\* the last success or reset; every other failed send leaves the recv state
\* as it is; either way the tick ends with the sequence number one above
\* that of the packet it built.
C25_ResetOnFirstRefusal ==
    [][ /\ \A refused \in BOOLEAN :
              TickSendErr(refused) =>
                  /\ recv' = recv
                  /\ IF refused /\ backoff.attempt = 0
                       THEN sendPc' = "tick_recv" /\ send' = send
                       ELSE sendPc' = "select"
                            /\ send'.udp_seqnum = (lastBuilt + 1) % U16
        /\ TickSendOk => recv' = recv
        /\ TickRecvReset =>
              /\ recv' = RecvStateNew
              /\ send'.udp_seqnum = (lastBuilt + 1) % U16 ]_vars

\* The telemetry of a decoded response has been cleared by the send task:
\* the receive loop is still connected, one run has failed, and the tick
\* has counted its packet.
C25_Witness ==
    /\ recvPc = "select"
    /\ sendPc = "select"
    /\ responded
    /\ connected
    /\ recv = RecvStateNew
    /\ backoff.attempt = 1
    /\ send.udp_seqnum = 1

\* C26: a timeout while connected marks the loop disconnected,
\* resets the recv state and leaves the TCP supervisor and its channels
\* alone; a timeout while disconnected changes nothing; a decoded datagram
\* marks the loop connected; a datagram that fails to decode is not a
\* received packet and leaves the flag as it was.
C26_TimeoutDisconnects ==
    [][ /\ RecvTimeout =>
              IF connected
                THEN /\ ~connected'
                     /\ recv' = RecvStateNew
                     /\ UNCHANGED << supVars, tcp_connected, tcp_tx, tcp_state_tx >>
                ELSE UNCHANGED vars
        /\ (\E p \in Responses : RecvPacket(p)) => connected'
        /\ RecvDecodeError => connected' = connected ]_vars

\* The loop is disconnected after a response had brought up a supervisor,
\* which still runs and is still attached.
C26_Witness ==
    /\ recvPc = "select"
    /\ ~connected
    /\ responded
    /\ recv = RecvStateNew
    /\ tcp_connected
    /\ tcp_tx # 0
    /\ sup[tcp_tx].pc = "running"
    /\ sup_sig[tcp_tx] = 0

\* C27: a datagram that fails to decode, by an error or by the panic of
\* from_bits(..).unwrap(), leaves the receive loop running and leaves the
\* connected flag, the recv state, the send state and the TCP supervisor
\* as they were.
C27_DecodeFailureDiscarded ==
    [][(RecvDecodeError \/ RecvDecodePanic) =>
           /\ recvPc' = recvPc
           /\ UNCHANGED << connected, recv, send, supVars, tcp_connected, tcp_tx,
                           tcp_state_tx >> ]_vars

\* C29: while a tick waits out a pending backoff delay the send-state write
\* lock is free, so a facade mutator such as enable() can go through.
C29_BackoffWaitLockFree ==
    (sendPc = "tick_send" /\ backoff.timeout # None) =>
        /\ SendLockFree
        /\ (ds = "live" /\ events < MaxEvents) => ENABLED Enable

\* C30: the send task never waits for the recv-state write lock with the
\* send-state write lock held while the receive loop waits for the
\* send-state lock with the recv-state write lock held.
C30_NoLockCycle ==
    ~ ( /\ sendPc \in {"tick_recv", "sig_recv"}
        /\ \/ recvPc \in {"need_date", "spawn_tcp"}
           \/ recvPc = "estop" /\ packet.estop )

\* C28: once a newer supervisor has installed its tag sender in the TCP
\* state, no step of an older supervisor, its late connect or its handling
\* of the shutdown signal or of its closed private channel, removes or
\* replaces that sender.
C28_StaleSupervisorInert ==
    [][\A g \in Sups :
          (tcp_state_tx > g /\ (SupSignal(g) \/ SupConnectOk(g)))
              => tcp_state_tx' = tcp_state_tx]_vars

\* C31: on the way back from Simulation to Normal the receive loop forwards
\* one NewTarget with its current target address and then the NewMode; the
\* send task resets the sequence number for the NewTarget and for nothing
\* else, the NewMode(Normal) leaving the send state and the socket alone;
\* so once both tasks have handled every signal and the DsMode is Normal,
\* the send socket is connected to the address of the last NewTarget the
\* receive loop has taken, or to the construction address.
C31_BackToTarget ==
    [][ /\ ( /\ rx_q' = <<>> /\ fwd_q' = <<>>
             /\ sendPc' = "select" /\ recvPc' = "select"
             /\ send'.ds_mode = "Normal" )
           => udp_tx' = target_ip'
        /\ ( /\ RecvSigNewMode
             /\ Head(rx_q).mode = "Normal"
             /\ send.ds_mode = "Simulation"
             /\ ~SendEnded )
           => /\ fwd_q' = fwd_q \o <<NewTarget(target_ip), NewMode("Normal")>>
              /\ send'.ds_mode = "Normal"
              /\ target_ip' = target_ip
        /\ RecvSigNewTarget => target_ip' = Head(rx_q).ip
        /\ SendSigReset =>
              /\ send'.udp_seqnum = 0
              /\ Head(fwd_q).type = "NewTarget" => sig_ip' = Head(fwd_q).ip
        /\ SendSigIgnored =>
              /\ Head(fwd_q) = NewMode("Normal")
              /\ UNCHANGED << send, udp_tx, sig_ip >> ]_vars

\* The simulator has gone after a new target was requested: both tasks have
\* handled every signal, the DsMode is Normal again, and the send socket is
\* connected to the requested target, with the sequence number at zero.
C31_Witness ==
    /\ opmode = "Normal"
    /\ send.ds_mode = "Normal"
    /\ rx_q = <<>>
    /\ fwd_q = <<>>
    /\ sendPc = "select"
    /\ recvPc = "select"
    /\ target_ip # InitIp
    /\ udp_tx = target_ip
    /\ send.udp_seqnum = 0
    /\ events = MaxEvents

\* C32: every NewTarget the facade posts carries a well-formed IPv4
\* address, each component in 0..255, so the send task never aborts at the
\* reconnect to a new target.
C32_TargetsWellFormed ==
    /\ \A i \in 1..Len(rx_q) :
          rx_q[i].type = "NewTarget" => WellFormedIp(rx_q[i].ip)
    /\ \A i \in 1..Len(fwd_q) :
          fwd_q[i].type = "NewTarget" => WellFormedIp(fwd_q[i].ip)
    /\ sendPc # "panicked"

====
